---- MODULE Spec2Model ----
(***************************************************************************)
(* Content graph and incremental rebuild engine of src/src/site.rs (Site). *)
(* The state is the Site's tables (pages, sections, tags, categories,      *)
(* permalinks) and the files of its output directory (public); one action  *)
(* per public operation: load, rebuild_after_content_change, build and     *)
(* rebuild_after_template_change.  The content directory is the            *)
(* environment: the files an operation reads are its inputs.  HashMap      *)
(* iteration order is unspecified, so every loop over a table takes the    *)
(* order as an input.                                                      *)
(***************************************************************************)
EXTENDS Integers, Sequences, FiniteSets, TLC

VARIABLES status, pages, sections, tags, categories, permalinks, public, last, ops

vars == <<status, pages, sections, tags, categories, permalinks, public, last, ops>>

\* ---------------------------------------------------------------- bounds

\* Number of rebuild_after_content_change calls explored after load.
MaxOps == 2

\* ----------------------------------------------------------------- paths

Root == "content/_index.md"
Posts == "content/posts/_index.md"
PageC == "content/posts/c.md"
PageD == "content/posts/d.md"

SectionPaths == {Root, Posts}
PagePaths == {PageC, PageD}

\* glob() yields the entries in alphabetical order.
GlobOrder == <<Root, Posts, PageC, PageD>>

NoPath == "none"
NoLink == "none"
NoCategory == "none"
BaseDir == "."

\* path.ends_with("_index.md")
IsSectionPath(path) == path \in SectionPaths

\* Directory containing a content file.
ParentPath(path) == IF path = Root THEN "content" ELSE "content/posts"

\* Path::parent of a directory; NoPath stands for None (the empty path has no
\* parent).
DirParent(dir) ==
    CASE dir = "content/posts" -> "content"
      [] dir = "content" -> BaseDir
      [] OTHER -> NoPath

\* dir.join("_index.md")
JoinIndex(dir) ==
    CASE dir = "content" -> Root
      [] dir = "content/posts" -> Posts
      [] OTHER -> NoPath

\* Path of a content file relative to the content directory.
RelativePath(path) ==
    CASE path = Root -> "_index.md"
      [] path = Posts -> "posts/_index.md"
      [] path = PageC -> "posts/c.md"
      [] path = PageD -> "posts/d.md"

\* The URL path of an item: its relative path without the file name of an
\* index file and without the extension.
UrlPath(path) ==
    CASE path = Root -> ""
      [] path = Posts -> "posts"
      [] path = PageC -> "posts/c"
      [] path = PageD -> "posts/d"

\* config.make_permalink(path): the base URL joined with the path.
MakePermalink(path) == <<"base_url", path>>

\* ----------------------------------------------------------------- files

Absent == [kind |-> "absent"]
Malformed == [kind |-> "malformed"]

PageFile(date, tgs, category, body, link) ==
    [kind |-> "page", date |-> date, tags |-> tgs, category |-> category,
     body |-> body, link |-> link]

\* A section file with its render flag and its page size (0: not paginated).
SectionFileWith(sort_by, link, render, paginate_by) ==
    [kind |-> "section", sort_by |-> sort_by, body |-> 1, link |-> link,
     render |-> render, paginate_by |-> paginate_by]

\* A section file that is rendered and not paginated.
SectionFile(sort_by, link) == SectionFileWith(sort_by, link, TRUE, 0)

\* The contents a page file is given: plain, the same with an edited body
\* that links to posts/c.md, and dated, tagged "x", in category "news".
PageFiles ==
    { PageFile(0, <<>>, NoCategory, 1, NoLink),
      PageFile(0, <<>>, NoCategory, 2, "posts/c.md"),
      PageFile(1, <<"x">>, "news", 1, NoLink) }

SectionFiles == { SectionFile("None", NoLink), SectionFile("Date", NoLink) }

\* content/_index.md has no pages of its own here, so one sort mode is enough.
RootFiles == { SectionFile("None", NoLink) }

FilesFor(path) ==
    (IF path = Root THEN RootFiles ELSE IF path = Posts THEN SectionFiles ELSE PageFiles)
        \cup {Malformed}

\* ------------------------------------------------------------ hash maps

EmptyMap == [k \in {} |-> 0]

Has(m, k) == k \in DOMAIN m

Insert(m, k, v) == [q \in DOMAIN m \cup {k} |-> IF q = k THEN v ELSE m[q]]

Remove(m, k) == [q \in DOMAIN m \ {k} |-> m[q]]

\* entry(k).or_insert_with(|| vec![]).push(v)
PushEntry(m, k, v) == Insert(m, k, IF Has(m, k) THEN Append(m[k], v) ELSE <<v>>)

\* The orders in which the keys S of a table may be visited.
Orders(S) == {o \in [1..Cardinality(S) -> S] : \A i, j \in DOMAIN o : o[i] = o[j] => i = j}

\* values() of table m visited in the order o.
Visit(o, m) == SelectSeq(o, LAMBDA k : Has(m, k))

\* --------------------------------------------------------------- records

Raw == <<"raw", 0>>

FrontMatter(file) ==
    [date |-> file.date, tags |-> file.tags, category |-> file.category]

PageFromFile(path, file) ==
    [file_path |-> path,
     relative_path |-> RelativePath(path),
     parent_path |-> ParentPath(path),
     permalink |-> MakePermalink(UrlPath(path)),
     path |-> UrlPath(path),
     meta |-> FrontMatter(file),
     raw_content |-> [body |-> file.body, link |-> file.link],
     content |-> Raw,
     previous |-> NoPath,
     next |-> NoPath]

SectionFromFile(path, file) ==
    [file_path |-> path,
     relative_path |-> RelativePath(path),
     parent_path |-> ParentPath(path),
     permalink |-> MakePermalink(UrlPath(path)),
     components |-> UrlPath(path),
     meta |-> [sort_by |-> file.sort_by, render |-> file.render,
               paginate_by |-> file.paginate_by],
     raw_content |-> [body |-> file.body, link |-> file.link],
     content |-> Raw,
     pages |-> <<>>,
     ignored_pages |-> <<>>,
     subsections |-> <<>>]

\* Section::default() with the permalink load gives it.
DefaultSection ==
    [file_path |-> "",
     relative_path |-> "",
     parent_path |-> "",
     permalink |-> MakePermalink(""),
     components |-> "",
     meta |-> [sort_by |-> "None", render |-> TRUE, paginate_by |-> 0],
     raw_content |-> [body |-> 0, link |-> NoLink],
     content |-> Raw,
     pages |-> <<>>,
     ignored_pages |-> <<>>,
     subsections |-> <<>>]

\* render_markdown resolves the body's relative link in the permalink table.
CanRender(item, plinks) ==
    item.raw_content.link = NoLink \/ Has(plinks, item.raw_content.link)

RenderMarkdown(item) == [item EXCEPT !.content = <<"html", item.raw_content.body>>]

\* ------------------------------------------------------------- page order

\* sort_pages for SortBy::Date: a stable sort, latest date first.
RECURSIVE InsertByDate(_, _)
InsertByDate(sorted, page) ==
    IF sorted = <<>> THEN <<page>>
    ELSE IF Head(sorted).meta.date >= page.meta.date
         THEN <<Head(sorted)>> \o InsertByDate(Tail(sorted), page)
         ELSE <<page>> \o sorted

RECURSIVE SortByDate(_)
SortByDate(ps) ==
    IF ps = <<>> THEN <<>>
    ELSE InsertByDate(SortByDate(SubSeq(ps, 1, Len(ps) - 1)), ps[Len(ps)])

\* sort_pages(pages, sort_by) -> (sorted, cannot be sorted)
SortPages(ps, sort_by) ==
    IF sort_by = "Date"
    THEN [sorted |-> SortByDate(SelectSeq(ps, LAMBDA p : p.meta.date # 0)),
          ignored |-> SelectSeq(ps, LAMBDA p : p.meta.date = 0)]
    ELSE [sorted |-> ps, ignored |-> <<>>]

\* populate_previous_and_next_pages: every page refers to its neighbours in
\* the sorted list, the ends have none.
PopulatePreviousAndNextPages(ps) ==
    [i \in 1..Len(ps) |->
        [ps[i] EXCEPT !.previous = IF i > 1 THEN ps[i - 1].file_path ELSE NoPath,
                      !.next = IF i < Len(ps) THEN ps[i + 1].file_path ELSE NoPath]]

\* ------------------------------------------------------ populate_sections

\* First loop: every page whose parent index is a section is pushed (as a
\* clone) to that section's pages.
RECURSIVE PushPages(_, _, _)
PushPages(secs, pgs, order) ==
    IF order = <<>> THEN secs
    ELSE LET page == pgs[Head(order)]
             key == JoinIndex(page.parent_path)
         IN PushPages(IF Has(secs, key)
                      THEN [secs EXCEPT ![key].pages = Append(@, page)]
                      ELSE secs,
                      pgs, Tail(order))

\* Second loop: grandparent_paths.get(dir), the sections whose directory's
\* parent is dir, in iteration order (the empty sequence stands for None).
\* A listed section is identified by its key in the section table.
GrandparentPaths(secs, order, dir) ==
    SelectSeq(order, LAMBDA k : /\ DirParent(secs[k].parent_path) # NoPath
                                /\ DirParent(secs[k].parent_path) = dir)

\* Mutant of the third loop: the sorted pages are stored without calling
\* populate_previous_and_next_pages.
SortAndLinkUnlinked(secs, order, k) ==
    LET split == SortPages(secs[k].pages, secs[k].meta.sort_by)
    IN [secs[k] EXCEPT
            !.pages = split.sorted,
            !.ignored_pages = split.ignored,
            !.subsections = @ \o GrandparentPaths(secs, order, secs[k].parent_path)]

\* Third loop, for one section.
SortAndLink(secs, order, k) ==
    LET split == SortPages(secs[k].pages, secs[k].meta.sort_by)
    IN [secs[k] EXCEPT
            !.pages = PopulatePreviousAndNextPages(split.sorted),
            !.ignored_pages = split.ignored,
            !.subsections = @ \o GrandparentPaths(secs, order, secs[k].parent_path)]

\* populate_sections with pages.values() visited in order po and
\* sections.values() in order so.
PopulateSections(s, po, so) ==
    LET pushed == PushPages(s.sections, s.pages, Visit(po, s.pages))
        order == Visit(so, pushed)
    IN [s EXCEPT !.sections = [k \in DOMAIN pushed |-> SortAndLink(pushed, order, k)]]

\* -------------------------------------------- populate_tags_and_categories

RECURSIVE PushAll(_, _, _)
PushAll(m, keys, v) ==
    IF keys = <<>> THEN m ELSE PushAll(PushEntry(m, Head(keys), v), Tail(keys), v)

RECURSIVE IndexPages(_, _, _)
IndexPages(s, pgs, order) ==
    IF order = <<>> THEN s
    ELSE LET page == pgs[Head(order)]
         IN IndexPages(
                [s EXCEPT
                    !.categories = IF page.meta.category # NoCategory
                                   THEN PushEntry(@, page.meta.category, page.file_path)
                                   ELSE @,
                    !.tags = PushAll(@, page.meta.tags, page.file_path)],
                pgs, Tail(order))

PopulateTagsAndCategories(s, po) == IndexPages(s, s.pages, Visit(po, s.pages))

\* ------------------------------------------------------------------ site

\* The files of the output directory, by <<directory, subdirectory, name>>;
\* no file: the directory is empty or does not exist.
EmptyOutput == [f \in {} |-> [tpl |-> "none"]]

\* The output directory is written by the site and never read: no table
\* depends on what it holds.  A specification that follows the tables alone
\* starts with this value in place of the directory and so keeps it.
Unobserved == [f \in {<<"*", "*", "*">>} |-> [tpl |-> "none"]]

\* The Site's tables and the output directory it writes, as one value.
Self ==
    [pages |-> pages, sections |-> sections, tags |-> tags,
     categories |-> categories, permalinks |-> permalinks, public |-> public]

\* Site::new
NewSite ==
    [pages |-> EmptyMap, sections |-> EmptyMap, tags |-> EmptyMap,
     categories |-> EmptyMap, permalinks |-> EmptyMap, public |-> EmptyOutput]

\* The outcome of a step of an operation: the site it leaves, whether it
\* returned Ok, and the calls it made.
Outcome(s, ok, steps) == [site |-> s, ok |-> ok, steps |-> steps]

\* Sequencing with the ? operator: b runs only when a returned Ok.
Then(a, b) == IF a.ok THEN Outcome(b.site, b.ok, a.steps \o b.steps) ELSE a

\* ------------------------------------------------------------- rendering

\* No step fails.
NoFailure == "none"

\* A step that writes the output directory: it leaves the files pub when its
\* templates and file operations succeed, and the directory as it was when
\* they fail.  A directory that is not followed stays so.
Try(s, step, ok, pub) ==
    Outcome(IF ok /\ s.public # Unobserved THEN [s EXCEPT !.public = pub] ELSE s,
            ok, <<step>>)

\* create_file: the file is created or replaced.
CreateFile(pub, file, content) == (file :> content) @@ pub

\* Section::all_pages_path: the paths of the ordered pages, then of the
\* ignored ones.
AllPagesPath(section) ==
    [i \in DOMAIN section.pages |-> section.pages[i].file_path]
        \o [i \in DOMAIN section.ignored_pages |-> section.ignored_pages[i].file_path]

\* get_all_orphan_pages: the pages whose path no section lists (as the set of
\* their keys in the page table).
GetAllOrphanPages(s) ==
    LET pages_in_sections ==
            UNION {{AllPagesPath(s.sections[k])[i] : i \in DOMAIN AllPagesPath(s.sections[k])} :
                      k \in DOMAIN s.sections}
    IN {p \in DOMAIN s.pages : s.pages[p].file_path \notin pages_in_sections}

\* The output of a page: index.html in the directory of its path, rendered
\* from the record given.
WritePage(pub, page) ==
    CreateFile(pub, <<page.path, "", "index.html">>, [tpl |-> "page.html", page |-> page])

\* render_page for the pages ps, in order.
RECURSIVE WritePages(_, _)
WritePages(pub, ps) ==
    IF ps = <<>> THEN pub ELSE WritePages(WritePage(pub, Head(ps)), Tail(ps))

\* render_page
RenderPage(s, page, ok) == Try(s, "render_page", ok, WritePage(s.public, page))

\* Paginator::new: the pages in chunks of paginate_by, the last one may be
\* short; no page, no pager.
RECURSIVE Pagers(_, _)
Pagers(ps, paginate_by) ==
    IF ps = <<>> THEN <<>>
    ELSE IF Len(ps) <= paginate_by THEN <<ps>>
    ELSE <<SubSeq(ps, 1, paginate_by)>>
            \o Pagers(SubSeq(ps, paginate_by + 1, Len(ps)), paginate_by)

\* paginate_path joined with the number of the pager.
PagerPath(i) ==
    CASE i = 1 -> "page/1"
      [] i = 2 -> "page/2"
      [] i = 3 -> "page/3"
      [] OTHER -> "page/4"

\* render_paginated without the alias: the first pager is written in its own
\* directory as the others are, and the section gets no index.html.
RECURSIVE WritePagersInTheirs(_, _, _, _)
WritePagersInTheirs(pub, section, pagers, i) ==
    IF i > Len(pagers) THEN pub
    ELSE WritePagersInTheirs(
            CreateFile(pub, <<section.components, PagerPath(i), "index.html">>,
                [tpl |-> "pager", index |-> i,
                 pages |-> [j \in DOMAIN pagers[i] |-> pagers[i][j].file_path]]),
            section, pagers, i + 1)

\* render_paginated, pagers i and after: the first pager is the section's
\* index.html and has an alias in its own directory, the others are written
\* in theirs.
RECURSIVE WritePagers(_, _, _, _)
WritePagers(pub, section, pagers, i) ==
    IF i > Len(pagers) THEN pub
    ELSE LET output == [tpl |-> "pager", index |-> i,
                        pages |-> [j \in DOMAIN pagers[i] |-> pagers[i][j].file_path]]
             page_path == <<section.components, PagerPath(i), "index.html">>
         IN WritePagers(
                IF i > 1 THEN CreateFile(pub, page_path, output)
                ELSE CreateFile(
                        CreateFile(pub, <<section.components, "", "index.html">>, output),
                        page_path, [tpl |-> "alias", to |-> section.permalink]),
                section, pagers, i + 1)

\* render_paginated
RenderPaginated(pub, section) ==
    WritePagers(pub, section, Pagers(section.pages, section.meta.paginate_by), 1)

\* The body of the loop of render_sections: the ordered pages of the section,
\* then its own index.html if it is to be rendered.
WriteSection(pub, section) ==
    IF ~section.meta.render THEN WritePages(pub, section.pages)
    ELSE IF section.meta.paginate_by > 0
    THEN RenderPaginated(WritePages(pub, section.pages), section)
    ELSE CreateFile(WritePages(pub, section.pages),
                    <<section.components, "", "index.html">>,
                    [tpl |-> "section.html",
                     pages |-> [j \in DOMAIN section.pages |-> section.pages[j].file_path]])

\* The loop of render_sections over the sections keys.  Different sections
\* write different files, so the order of the loop does not show.
RECURSIVE WriteSections(_, _, _)
WriteSections(pub, secs, keys) ==
    IF keys = {} THEN pub
    ELSE WriteSections(WriteSection(pub, secs[CHOOSE k \in keys : TRUE]), secs,
                       keys \ {CHOOSE k \in keys : TRUE})

\* render_sections
RenderSections(s, ok) ==
    Try(s, "render_sections", ok, WriteSections(s.public, s.sections, DOMAIN s.sections))

\* The loop of render_orphan_pages over the orphans keys.
RECURSIVE WriteOrphans(_, _, _)
WriteOrphans(pub, pgs, keys) ==
    IF keys = {} THEN pub
    ELSE WriteOrphans(WritePage(pub, pgs[CHOOSE p \in keys : TRUE]), pgs,
                      keys \ {CHOOSE p \in keys : TRUE})

\* "<name>/<slug>" for the tags and categories of the files.
ItemPath(name, item) ==
    CASE name = "tags" /\ item = "x" -> "tags/x"
      [] name = "tags" /\ item = "y" -> "tags/y"
      [] name = "categories" /\ item = "news" -> "categories/news"

\* The permalinks of a list page and of the pages of its items, as
\* render_sitemap collects them.
ListPermalinks(name, items) ==
    IF items = EmptyMap THEN {}
    ELSE {MakePermalink(name)} \cup {MakePermalink(ItemPath(name, i)) : i \in DOMAIN items}

\* The sitemap.xml of render_sitemap: the pages, the sections and the list
\* pages of the site.
WriteSitemap(pub, s) ==
    CreateFile(pub, <<"", "", "sitemap.xml">>,
        [tpl |-> "sitemap.xml",
         urls |-> {s.pages[p].permalink : p \in DOMAIN s.pages}
                    \cup {s.sections[k].permalink : k \in DOMAIN s.sections}
                    \cup ListPermalinks("categories", s.categories)
                    \cup ListPermalinks("tags", s.tags)])

\* render_sitemap
RenderSitemap(s, ok) == Try(s, "render_sitemap", ok, WriteSitemap(s.public, s))

\* The rss.xml of render_rss_feed: the dated pages, no file without one.
WriteRssFeed(pub, s) ==
    IF \A p \in DOMAIN s.pages : s.pages[p].meta.date = 0 THEN pub
    ELSE CreateFile(pub, <<"", "", "rss.xml">>,
            [tpl |-> "rss.xml",
             urls |-> {s.pages[p].permalink : p \in {q \in DOMAIN s.pages :
                                                       s.pages[q].meta.date # 0}}])

\* render_rss_feed
RenderRssFeed(s, ok) == Try(s, "render_rss_feed", ok, WriteRssFeed(s.public, s))

\* The robots.txt of render_robots.
WriteRobots(pub) == CreateFile(pub, <<"", "", "robots.txt">>, [tpl |-> "robots.txt"])

\* sort_by(|a, b| b.count.cmp(&a.count)), a stable sort: an item goes after
\* the items of at least its count.
RECURSIVE InsertByCount(_, _)
InsertByCount(sorted, item) ==
    IF sorted = <<>> THEN <<item>>
    ELSE IF Head(sorted).count >= item.count
         THEN <<Head(sorted)>> \o InsertByCount(Tail(sorted), item)
         ELSE <<item>> \o sorted

RECURSIVE SortByCount(_)
SortByCount(items) ==
    IF items = <<>> THEN <<>>
    ELSE InsertByCount(SortByCount(SubSeq(items, 1, Len(items) - 1)), items[Len(items)])

\* The sorted_items of render_categories_and_tags: one ListItem for every key
\* of the table, in the order the table is iterated, sorted by count.
SortedItems(items, order) ==
    SortByCount([i \in DOMAIN order |-> [name |-> order[i], count |-> Len(items[order[i]])]])

\* The pages of the items keys, one index.html for each, with the live pages
\* of the bucket.
RECURSIVE WriteItems(_, _, _, _, _)
WriteItems(pub, name, items, pgs, keys) ==
    IF keys = {} THEN pub
    ELSE WriteItems(
            CreateFile(pub, <<name, CHOOSE i \in keys : TRUE, "index.html">>,
                [tpl |-> name, item |-> CHOOSE i \in keys : TRUE,
                 members |-> {p \in DOMAIN pgs :
                                \E j \in DOMAIN items[CHOOSE i \in keys : TRUE] :
                                    items[CHOOSE i \in keys : TRUE][j] = p}]),
            name, items, pgs, keys \ {CHOOSE i \in keys : TRUE})

\* The files of render_categories_and_tags for the table items, iterated in
\* order: none for an empty table, else the list page and the page of every
\* item.
WriteList(pub, s, name, items, order) ==
    IF items = EmptyMap THEN pub
    ELSE WriteItems(CreateFile(pub, <<name, "", "index.html">>,
                               [tpl |-> name, items |-> SortedItems(items, order)]),
                    name, items, s.pages, DOMAIN items)

\* The files of the static directory.
StaticFiles == {"site.css"}

\* The copies copy_static_directory makes.
CopyStatic(pub) == [f \in {<<"", "", n>> : n \in StaticFiles} |-> [tpl |-> "static"]] @@ pub

\* Mutant of clean: the output directory is left as it is.
CleanedNot(pub) == pub

\* clean: remove_dir_all of the output directory.
Cleaned(pub) == EmptyOutput

\* The steps of build, for a configuration that generates the feed and both
\* kinds of list pages.
BuildSteps ==
    <<"clean", "render_sections", "render_orphan_pages", "render_sitemap",
      "render_rss_feed", "render_robots", "categories", "tags", "copy_static_directory">>

\* What a step of build that returns Ok makes of the output directory pub.
\* lo gives the orders in which the two index tables are iterated.
StepWritten(pub, s, lo, step) ==
    CASE step = "clean" -> Cleaned(pub)
      [] step = "render_sections" -> WriteSections(pub, s.sections, DOMAIN s.sections)
      [] step = "render_orphan_pages" -> WriteOrphans(pub, s.pages, GetAllOrphanPages(s))
      [] step = "render_sitemap" -> WriteSitemap(pub, s)
      [] step = "render_rss_feed" -> WriteRssFeed(pub, s)
      [] step = "render_robots" -> WriteRobots(pub)
      [] step = "categories" -> WriteList(pub, s, "categories", s.categories, lo.categories)
      [] step = "tags" -> WriteList(pub, s, "tags", s.tags, lo.tags)
      [] step = "copy_static_directory" -> CopyStatic(pub)

\* The output directory after the first n steps of build returned Ok.
RECURSIVE BuildWritten(_, _, _)
BuildWritten(s, lo, n) ==
    IF n = 0 THEN s.public
    ELSE StepWritten(BuildWritten(s, lo, n - 1), s, lo, BuildSteps[n])

\* The step fail can fail: every step has a template or a file operation
\* that may, but the list pages of an empty table.
CanFail(s, fail) ==
    /\ \E i \in DOMAIN BuildSteps : BuildSteps[i] = fail
    /\ fail = "categories" => s.categories # EmptyMap
    /\ fail = "tags" => s.tags # EmptyMap

\* build, step by step: every step but the one named by fail returns Ok,
\* and the first error is returned (the ? of every call), leaving what the
\* steps before it wrote.
BuildBySteps(s, lo, fail) ==
    IF CanFail(s, fail)
    THEN Outcome([s EXCEPT !.public =
                    BuildWritten(s, lo, (CHOOSE i \in DOMAIN BuildSteps : BuildSteps[i] = fail) - 1)],
                 FALSE,
                 SubSeq(BuildSteps, 1, CHOOSE i \in DOMAIN BuildSteps : BuildSteps[i] = fail))
    ELSE Outcome([s EXCEPT !.public = BuildWritten(s, lo, Len(BuildSteps))], TRUE, BuildSteps)

\* build as one step of its caller.
Build(s, lo, fail) ==
    IF s.public = Unobserved THEN Outcome(s, fail = NoFailure, <<"build">>)
    ELSE LET built == BuildBySteps(s, lo, fail)
         IN Outcome(built.site, built.ok, <<"build">>)

\* add_page: Page::from_file may fail, the page replaces the entry of its path.
AddPage(s, path, file) ==
    IF file.kind # "page" THEN Outcome(s, FALSE, <<"add_page">>)
    ELSE Outcome([s EXCEPT !.pages = Insert(@, path, PageFromFile(path, file))],
                 TRUE, <<"add_page">>)

\* add_section
AddSection(s, path, file) ==
    IF file.kind # "section" THEN Outcome(s, FALSE, <<"add_section">>)
    ELSE Outcome([s EXCEPT !.sections = Insert(@, path, SectionFromFile(path, file))],
                 TRUE, <<"add_section">>)

\* Mutant of add_section_and_render: the permalink entry is never written.
AddSectionAndRenderUnpatched(s, path, file) ==
    LET added == AddSection(s, path, file)
        section == added.site.sections[path]
    IN IF ~added.ok THEN added
       ELSE IF ~CanRender(section, added.site.permalinks)
       THEN Outcome(added.site, FALSE, added.steps \o <<"render_markdown">>)
       ELSE Outcome([added.site EXCEPT !.sections[path] = RenderMarkdown(section)], TRUE,
                    added.steps \o <<"render_markdown">>)

\* add_section_and_render
AddSectionAndRender(s, path, file) ==
    LET added == AddSection(s, path, file)
        section == added.site.sections[path]
        patched == [added.site EXCEPT
                        !.permalinks = Insert(@, section.relative_path, section.permalink)]
    IN IF ~added.ok THEN added
       ELSE IF ~CanRender(section, patched.permalinks)
       THEN Outcome(patched, FALSE,
                    added.steps \o <<"permalinks.insert", "render_markdown">>)
       ELSE Outcome([patched EXCEPT !.sections[path] = RenderMarkdown(section)], TRUE,
                    added.steps \o <<"permalinks.insert", "render_markdown">>)

\* Mutant of add_page_and_render: an existing page never counts as changed.
AddPageAndRenderUnchanged(s, path, file) ==
    LET existed == Has(s.pages, path)
        added == AddPage(s, path, file)
        page == added.site.pages[path]
        patched == [added.site EXCEPT
                        !.permalinks = Insert(@, page.relative_path, page.permalink)]
        rendered == RenderMarkdown(page)
        steps == added.steps \o <<"permalinks.insert", "render_markdown">>
    IN IF ~added.ok
       THEN [site |-> added.site, ok |-> FALSE, steps |-> added.steps,
             frontmatter_changed |-> FALSE, page |-> Absent]
       ELSE IF ~CanRender(page, patched.permalinks)
       THEN [site |-> patched, ok |-> FALSE, steps |-> steps,
             frontmatter_changed |-> FALSE, page |-> Absent]
       ELSE [site |-> [patched EXCEPT !.pages[path] = rendered], ok |-> TRUE,
             steps |-> steps,
             frontmatter_changed |-> ~existed,
             page |-> rendered]

\* Mutant of add_page_and_render: the body is rendered against the table as
\* it was, the entry is written afterwards.
AddPageAndRenderEarly(s, path, file) ==
    LET existed == Has(s.pages, path)
        added == AddPage(s, path, file)
        page == added.site.pages[path]
        patched == [added.site EXCEPT
                        !.permalinks = Insert(@, page.relative_path, page.permalink)]
        rendered == RenderMarkdown(page)
    IN IF ~added.ok
       THEN [site |-> added.site, ok |-> FALSE, steps |-> added.steps,
             frontmatter_changed |-> FALSE, page |-> Absent]
       ELSE IF ~CanRender(page, s.permalinks)
       THEN [site |-> added.site, ok |-> FALSE,
             steps |-> added.steps \o <<"render_markdown">>,
             frontmatter_changed |-> FALSE, page |-> Absent]
       ELSE [site |-> [patched EXCEPT !.pages[path] = rendered], ok |-> TRUE,
             steps |-> added.steps \o <<"render_markdown", "permalinks.insert">>,
             frontmatter_changed |-> IF existed THEN s.pages[path].meta # rendered.meta
                                     ELSE TRUE,
             page |-> rendered]

\* add_page_and_render: the outcome also carries the (bool, Page) result.
AddPageAndRender(s, path, file) ==
    LET existed == Has(s.pages, path)
        added == AddPage(s, path, file)
        page == added.site.pages[path]
        patched == [added.site EXCEPT
                        !.permalinks = Insert(@, page.relative_path, page.permalink)]
        rendered == RenderMarkdown(page)
        steps == added.steps \o <<"permalinks.insert", "render_markdown">>
    IN IF ~added.ok
       THEN [site |-> added.site, ok |-> FALSE, steps |-> added.steps,
             frontmatter_changed |-> FALSE, page |-> Absent]
       ELSE IF ~CanRender(page, patched.permalinks)
       THEN [site |-> patched, ok |-> FALSE, steps |-> steps,
             frontmatter_changed |-> FALSE, page |-> Absent]
       ELSE [site |-> [patched EXCEPT !.pages[path] = rendered], ok |-> TRUE,
             steps |-> steps,
             frontmatter_changed |-> IF existed THEN s.pages[path].meta # rendered.meta
                                     ELSE TRUE,
             page |-> rendered]

\* The rendering steps evaluate templates and write files; whether those of
\* a call succeed is its input renderOk.  The build of a call whose rendering
\* fails fails at its first rendering step.
BuildFailure(renderOk) == IF renderOk THEN NoFailure ELSE "render_sections"

\* populate_sections and populate_tags_and_categories, then build.
RepopulateAndBuild(s, po, so, lo, renderOk) ==
    LET sorted == PopulateSections(s, po, so)
        indexed == PopulateTagsAndCategories(sorted, po)
    IN Then(Outcome(indexed, TRUE, <<"populate_sections", "populate_tags_and_categories">>),
            Build(indexed, lo, BuildFailure(renderOk)))

\* rebuild_after_content_change, file exists, section index file.
ChangeSection(s, path, file, renderOk) ==
    LET added == AddSectionAndRender(s, path, file)
    IN Then(added, RenderSections(added.site, renderOk))

\* rebuild_after_content_change, file exists, page.
ChangePage(s, path, file, po, so, lo, renderOk) ==
    LET added == AddPageAndRender(s, path, file)
    IN IF ~added.ok THEN Outcome(added.site, FALSE, added.steps)
       ELSE IF added.frontmatter_changed
       THEN Then(added, RepopulateAndBuild(added.site, po, so, lo, renderOk))
       ELSE Then(added, RenderPage(added.site, added.page, renderOk))

\* Mutant of the deletion branch: removing a section also drops the entries
\* of everything in its directory.
RemoveContentAndBelow(s, path) ==
    LET gone == {k \in DOMAIN s.permalinks :
                    \/ k = RelativePath(path)
                    \/ IsSectionPath(path) /\ k \in {"posts/c.md", "posts/d.md"}}
        unlinked == [s EXCEPT !.permalinks = [k \in DOMAIN @ \ gone |-> @[k]]]
    IN Outcome(IF IsSectionPath(path)
               THEN [unlinked EXCEPT !.sections = Remove(@, path)]
               ELSE [unlinked EXCEPT !.pages = Remove(@, path)],
               TRUE, <<"permalinks.remove", "remove">>)

\* The table the deletion branch indexes for the relative path.
Known(s, path) ==
    IF IsSectionPath(path) THEN Has(s.sections, path) ELSE Has(s.pages, path)

\* rebuild_after_content_change, file does not exist: the entry of the item
\* leaves the permalinks, then the item leaves its table.
RemoveContent(s, path) ==
    LET relative_path == IF IsSectionPath(path)
                         THEN s.sections[path].relative_path
                         ELSE s.pages[path].relative_path
        unlinked == [s EXCEPT !.permalinks = Remove(@, relative_path)]
    IN Outcome(IF IsSectionPath(path)
               THEN [unlinked EXCEPT !.sections = Remove(@, path)]
               ELSE [unlinked EXCEPT !.pages = Remove(@, path)],
               TRUE, <<"permalinks.remove", "remove">>)

\* Mutant of the deletion branch: the indexes are not rebuilt.
DeleteContentNoIndex(s, path, po, so, lo, renderOk) ==
    LET removed == RemoveContent(s, path)
        sorted == PopulateSections(removed.site, po, so)
    IN Then(removed,
            Then(Outcome(sorted, TRUE, <<"populate_sections">>),
                 Build(sorted, lo, BuildFailure(renderOk))))

\* rebuild_after_content_change, file does not exist.
DeleteContent(s, path, po, so, lo, renderOk) ==
    LET removed == RemoveContent(s, path)
    IN Then(removed, RepopulateAndBuild(removed.site, po, so, lo, renderOk))

\* ------------------------------------------------------------------ load

AllPaths == SectionPaths \cup PagePaths

\* The content directories load may find.
Disks == {d \in [AllPaths -> PageFiles \cup SectionFiles \cup {Absent, Malformed}] :
            \A p \in AllPaths : d[p] \in FilesFor(p) \cup {Absent}}

\* The glob loop: add_section / add_page for every entry, stopping at the
\* first one that fails.
RECURSIVE LoadEntries(_, _, _)
LoadEntries(s, disk, entries) ==
    IF entries = <<>> THEN Outcome(s, TRUE, <<>>)
    ELSE LET path == Head(entries)
             added == IF IsSectionPath(path) THEN AddSection(s, path, disk[path])
                      ELSE AddPage(s, path, disk[path])
         IN IF added.ok THEN LoadEntries(added.site, disk, Tail(entries))
            ELSE Outcome(added.site, FALSE, <<>>)

\* The default index section when there is no content/_index.md.
InsertDefaultIndex(s) ==
    IF Has(s.sections, Root) THEN s
    ELSE [s EXCEPT !.sections = Insert(@, Root, DefaultSection)]

\* The local permalinks map of load: every page, then every section.
AllPermalinks(s) ==
    LET items == {s.pages[p] : p \in DOMAIN s.pages}
                    \cup {[x \in {"relative_path", "permalink"} |-> s.sections[k][x]] :
                            k \in DOMAIN s.sections}
        keys == {i.relative_path : i \in items}
    IN [r \in keys |-> (CHOOSE i \in items : i.relative_path = r).permalink]

\* The two render_markdown loops of load, in iteration order, stopping at the
\* first body that fails.
RECURSIVE RenderTable(_, _, _)
RenderTable(table, plinks, order) ==
    IF order = <<>> THEN [table |-> table, ok |-> TRUE]
    ELSE IF ~CanRender(table[Head(order)], plinks) THEN [table |-> table, ok |-> FALSE]
    ELSE RenderTable([table EXCEPT ![Head(order)] = RenderMarkdown(@)], plinks, Tail(order))

LoadSite(s, disk, po, so) ==
    LET found == LoadEntries(s, disk, SelectSeq(GlobOrder, LAMBDA p : disk[p] # Absent))
        indexed == InsertDefaultIndex(found.site)
        plinks == AllPermalinks(indexed)
        rpages == RenderTable(indexed.pages, plinks, Visit(po, indexed.pages))
        rsections == RenderTable(indexed.sections, plinks, Visit(so, indexed.sections))
        rendered == [indexed EXCEPT !.pages = rpages.table,
                                    !.sections = rsections.table,
                                    !.permalinks = plinks]
    IN IF ~found.ok THEN Outcome(found.site, FALSE, <<"add">>)
       ELSE IF ~rpages.ok
       THEN Outcome([indexed EXCEPT !.pages = rpages.table], FALSE,
                    <<"add", "permalinks", "render_markdown">>)
       ELSE IF ~rsections.ok
       THEN Outcome([indexed EXCEPT !.pages = rpages.table,
                                    !.sections = rsections.table], FALSE,
                    <<"add", "permalinks", "render_markdown">>)
       ELSE Outcome(PopulateTagsAndCategories(PopulateSections(rendered, po, so), po),
                    TRUE,
                    <<"add", "permalinks", "render_markdown", "populate_sections",
                      "populate_tags_and_categories">>)

\* --------------------------------------------------------------- actions

Call(op, path, file, out) ==
    [op |-> op, path |-> path, file |-> file, steps |-> out.steps,
     result |-> IF out.ok THEN "Ok" ELSE "Err"]

Store(s) ==
    /\ pages' = s.pages
    /\ sections' = s.sections
    /\ tags' = s.tags
    /\ categories' = s.categories
    /\ permalinks' = s.permalinks
    /\ public' = s.public

Init ==
    /\ status = "new"
    /\ pages = NewSite.pages
    /\ sections = NewSite.sections
    /\ tags = NewSite.tags
    /\ categories = NewSite.categories
    /\ permalinks = NewSite.permalinks
    /\ public = Unobserved
    /\ last = [op |-> "new", path |-> NoPath, file |-> Absent, steps |-> <<>>,
               result |-> "Ok"]
    /\ ops = 0

\* The orders in which a call may visit the two tables: the permutations of
\* the keys they hold when the call is over (`dry` is the call run with no
\* keys to visit; the loops that visit a table never change its keys).  A
\* call that reaches no loop over the tables (neither the render loops of load
\* nor populate_sections) takes no order.
Visits(dry) ==
    \E i \in DOMAIN dry.steps : dry.steps[i] \in {"permalinks", "populate_sections"}

PageOrders(dry) == IF Visits(dry) THEN Orders(DOMAIN dry.site.pages) ELSE {<<>>}
SectionOrders(dry) == IF Visits(dry) THEN Orders(DOMAIN dry.site.sections) ELSE {<<>>}

\* The orders in which a build may iterate the tag and category tables.
NoOrders == [tags |-> <<>>, categories |-> <<>>]

ListOrdersOf(s) ==
    {[tags |-> to, categories |-> co] :
        to \in Orders(DOMAIN s.tags), co \in Orders(DOMAIN s.categories)}

\* A call that builds takes an order for each table, unless the output is
\* not followed.
ListOrders(dry) ==
    IF dry.site.public # Unobserved /\ \E i \in DOMAIN dry.steps : dry.steps[i] = "build"
    THEN ListOrdersOf(dry.site)
    ELSE {NoOrders}

\* site.load() of a content directory among disks: a failed load ends the
\* session.
LoadFrom(disks) ==
    /\ status = "new"
    /\ \E disk \in disks :
         LET dry == LoadSite(Self, disk, <<>>, <<>>)
         IN \E po \in PageOrders(dry), so \in SectionOrders(dry) :
              LET out == LoadSite(Self, disk, po, so)
              IN /\ Store(out.site)
                 /\ status' = IF out.ok THEN "loaded" ELSE "failed"
                 /\ last' = Call("load", NoPath, Absent, out)
    /\ UNCHANGED ops

Load == LoadFrom(Disks)

\* rebuild_after_content_change(path) when path.exists().
Change(s, path, file, po, so, lo, renderOk) ==
    IF IsSectionPath(path) THEN ChangeSection(s, path, file, renderOk)
    ELSE ChangePage(s, path, file, po, so, lo, renderOk)

ContentChanged ==
    /\ status = "loaded"
    /\ ops < MaxOps
    /\ \E path \in AllPaths, renderOk \in BOOLEAN :
         \E file \in FilesFor(path) :
           LET dry == Change(Self, path, file, <<>>, <<>>, NoOrders, renderOk)
           IN \E po \in PageOrders(dry), so \in SectionOrders(dry), lo \in ListOrders(dry) :
                LET out == Change(Self, path, file, po, so, lo, renderOk)
                IN /\ Store(out.site)
                   /\ last' = Call("change", path, file, out)
    /\ ops' = ops + 1
    /\ UNCHANGED status

\* rebuild_after_content_change(path) when the file is gone and the path is a
\* key of its table.
ContentDeleted ==
    /\ status = "loaded"
    /\ ops < MaxOps
    /\ \E path \in AllPaths, renderOk \in BOOLEAN :
         /\ Known(Self, path)
         /\ LET dry == DeleteContent(Self, path, <<>>, <<>>, NoOrders, renderOk)
            IN \E po \in PageOrders(dry), so \in SectionOrders(dry), lo \in ListOrders(dry) :
                 LET out == DeleteContent(Self, path, po, so, lo, renderOk)
                 IN /\ Store(out.site)
                    /\ last' = Call("delete", path, Absent, out)
    /\ ops' = ops + 1
    /\ UNCHANGED status

\* rebuild_after_content_change(path) when the file is gone and the path is
\* not a key of its table: indexing the table panics.
ContentDeletedUnknown ==
    /\ status = "loaded"
    /\ ops < MaxOps
    /\ \E path \in AllPaths :
         /\ ~Known(Self, path)
         /\ last' = [op |-> "delete", path |-> path, file |-> Absent,
                     steps |-> <<>>, result |-> "panic"]
    /\ status' = "panicked"
    /\ ops' = ops + 1
    /\ UNCHANGED <<pages, sections, tags, categories, permalinks, public>>

Next == Load \/ ContentChanged \/ ContentDeleted \/ ContentDeletedUnknown

Spec == Init /\ [][Next]_vars

\* ------------------------------------------------- index rebuild alone

\* Number of consecutive populate_tags_and_categories calls explored.
MaxRuns == 2

\* Page files for the index: those above and two pages sharing tags.
IndexFiles ==
    PageFiles \cup { PageFile(2, <<"x", "y">>, NoCategory, 1, NoLink),
                     PageFile(0, <<"y">>, "news", 1, NoLink) }

\* A site whose page table was filled by add_page and nothing else.
InitIndex ==
    /\ status = "index"
    /\ \E keys \in SUBSET PagePaths :
         \E files \in [keys -> IndexFiles] :
           pages = [p \in keys |-> PageFromFile(p, files[p])]
    /\ sections = NewSite.sections
    /\ tags = NewSite.tags
    /\ categories = NewSite.categories
    /\ permalinks = NewSite.permalinks
    /\ public = NewSite.public
    /\ last = [op |-> "new", path |-> NoPath, file |-> Absent, steps |-> <<>>,
               result |-> "Ok"]
    /\ ops = 0

\* site.populate_tags_and_categories()
IndexRebuilt ==
    /\ status = "index"
    /\ ops < MaxRuns
    /\ \E po \in Orders(DOMAIN pages) :
         LET s == PopulateTagsAndCategories(Self, po)
         IN /\ Store(s)
            /\ last' = Call("populate_tags_and_categories", NoPath, Absent,
                            Outcome(s, TRUE, <<"populate_tags_and_categories">>))
    /\ ops' = ops + 1
    /\ UNCHANGED status

NextIndex == IndexRebuilt

SpecIndex == InitIndex /\ [][NextIndex]_vars

\* ------------------------------------------------- the output directory

\* Number of build and rebuild_after_template_change calls explored after
\* load.
MaxBuilds == 2

\* Page files for the output: dated, tagged "x", and undated, tagged "y",
\* both in category "news".
BuildPageFiles ==
    { PageFile(1, <<"x">>, "news", 1, NoLink),
      PageFile(0, <<"y">>, "news", 1, NoLink) }

\* The content directories built: content/_index.md is absent or paginated,
\* content/posts/_index.md is absent, plain, or sorted by date and paginated,
\* one page to a pager.
BuildDisks ==
    {d \in [AllPaths -> BuildPageFiles
                          \cup {Absent, SectionFile("None", NoLink),
                                SectionFileWith("None", NoLink, TRUE, 1),
                                SectionFileWith("Date", NoLink, TRUE, 1)}] :
        /\ d[Root] \in {Absent, SectionFileWith("None", NoLink, TRUE, 1)}
        /\ d[Posts] \in {Absent, SectionFile("None", NoLink),
                          SectionFileWith("Date", NoLink, TRUE, 1)}
        /\ \A p \in PagePaths : d[p] \in BuildPageFiles \cup {Absent}}

\* A new site whose output directory is followed; it holds no file yet.
InitBuild ==
    /\ status = "new"
    /\ pages = NewSite.pages
    /\ sections = NewSite.sections
    /\ tags = NewSite.tags
    /\ categories = NewSite.categories
    /\ permalinks = NewSite.permalinks
    /\ public = NewSite.public
    /\ last = [op |-> "new", path |-> NoPath, file |-> Absent, steps |-> <<>>,
               result |-> "Ok"]
    /\ ops = 0

LoadBuild == LoadFrom(BuildDisks)

\* What may fail in a build: nothing, or one of its steps.
Failures == {NoFailure} \cup {BuildSteps[i] : i \in DOMAIN BuildSteps}

\* site.build()
Built ==
    /\ status = "loaded"
    /\ ops < MaxBuilds
    /\ \E fail \in Failures, lo \in ListOrdersOf(Self) :
         LET out == BuildBySteps(Self, lo, fail)
         IN /\ Store(out.site)
            /\ last' = Call("build", NoPath, Absent, out)
    /\ ops' = ops + 1
    /\ UNCHANGED status

\* The templates that change: the two with an output of their own, and one
\* of the others.
TemplateNames == {"sitemap.xml", "rss.xml", "page.html"}

\* rebuild_after_template_change without its two single-output arms: every
\* template runs the build.
TemplateChangeAlwaysBuilds(s, name, lo, reloadOk, fail) ==
    IF ~reloadOk THEN Outcome(s, FALSE, <<"full_reload">>)
    ELSE Then(Outcome(s, TRUE, <<"full_reload">>), Build(s, lo, fail))

\* rebuild_after_template_change: the templates are reloaded, then the one
\* output of the template is rendered, or the site is built.
TemplateChange(s, name, lo, reloadOk, fail) ==
    IF ~reloadOk THEN Outcome(s, FALSE, <<"full_reload">>)
    ELSE Then(Outcome(s, TRUE, <<"full_reload">>),
              CASE name = "sitemap.xml" -> RenderSitemap(s, fail # "render_sitemap")
                [] name = "rss.xml" -> RenderRssFeed(s, fail # "render_rss_feed")
                [] OTHER -> Build(s, lo, fail))

\* site.rebuild_after_template_change(path)
TemplateChanged ==
    /\ status = "loaded"
    /\ ops < MaxBuilds
    /\ \E name \in TemplateNames, reloadOk \in BOOLEAN, fail \in Failures,
          lo \in ListOrdersOf(Self) :
         LET out == TemplateChange(Self, name, lo, reloadOk, fail)
         IN /\ Store(out.site)
            /\ last' = Call("template", name, Absent, out)
    /\ ops' = ops + 1
    /\ UNCHANGED status

NextBuild == LoadBuild \/ Built \/ TemplateChanged

SpecBuild == InitBuild /\ [][NextBuild]_vars

\* ================================================================ claims

PathsOf(ps) == [i \in DOMAIN ps |-> ps[i].file_path]

\* The section table a derivation from scratch over the tables of s gives.
FromScratch(s, po, so) ==
    PopulateSections(
        [s EXCEPT !.sections =
            [k \in DOMAIN s.sections |->
                [s.sections[k] EXCEPT !.pages = <<>>, !.ignored_pages = <<>>,
                                      !.subsections = <<>>]]],
        po, so).sections

\* Section k lists what the derived table lists, page for page.
SameLists(k, derived) ==
    /\ PathsOf(sections[k].pages) = PathsOf(derived[k].pages)
    /\ PathsOf(sections[k].ignored_pages) = PathsOf(derived[k].ignored_pages)
    /\ sections[k].subsections = derived[k].subsections

\* The sections K list what some from-scratch derivation lists.
DerivedFromScratch(K) ==
    \E po \in Orders(DOMAIN pages), so \in Orders(DOMAIN sections) :
        \A k \in K : SameLists(k, FromScratch(Self, po, so))

Made(l, step) == \E i \in DOMAIN l.steps : l.steps[i] = step

\* C1: after load and after every rebuild_after_content_change call that
\* re-derives the sections and returns Ok, every section's ordered, ignored and subsection
\* lists are what a from-scratch derivation over the current tables gives.
C1_SectionListsFromScratch ==
    (status = "loaded" /\ last.result = "Ok" /\ Made(last, "populate_sections"))
        => DerivedFromScratch(DOMAIN sections)

\* path is the one live page that declares tag.
OnlyTagged(tag, path) ==
    /\ Has(pages, path)
    /\ \A q \in DOMAIN pages :
         (\E i \in DOMAIN pages[q].meta.tags : pages[q].meta.tags[i] = tag) <=> q = path

InNoBucket(path, index) ==
    \A k \in DOMAIN index : \A i \in DOMAIN index[k] : index[k][i] # path

\* C2: deleting the only page that declares tag "x" leaves no key "x" in the
\* tag index and the page's path in no bucket of tags or categories.
C2_DeletedTagLeavesIndex ==
    [][(last'.op = "delete" /\ ops' = ops + 1 /\ OnlyTagged("x", last'.path))
        => /\ ~Has(tags', "x")
           /\ InNoBucket(last'.path, tags')
           /\ InNoBucket(last'.path, categories')]_vars

\* Same keys, same bucket contents, same bucket lengths.
SameIndex(a, b) ==
    /\ DOMAIN a = DOMAIN b
    /\ \A k \in DOMAIN a :
         /\ Len(a[k]) = Len(b[k])
         /\ {a[k][i] : i \in DOMAIN a[k]} = {b[k][i] : i \in DOMAIN b[k]}

\* C3: a second populate_tags_and_categories over the same page table leaves
\* the tag and category mappings as the first left them.
C3_IndexRebuildIdempotent ==
    [][(last.op = "populate_tags_and_categories"
            /\ last'.op = "populate_tags_and_categories" /\ ops' = ops + 1)
        => SameIndex(tags, tags') /\ SameIndex(categories, categories')]_vars

CheapSteps == <<"add_page", "permalinks.insert", "render_markdown", "render_page">>

FullSteps ==
    <<"add_page", "permalinks.insert", "render_markdown", "populate_sections",
      "populate_tags_and_categories", "build">>

\* A call for a page file that exists, parses and whose body renders.
PageReloaded ==
    /\ last'.op = "change" /\ ops' = ops + 1
    /\ last'.path \in PagePaths
    /\ last'.file.kind = "page"
    /\ last'.file.link # NoLink => Has(permalinks', last'.file.link)

\* C4: for a page file that still exists (and is re-parsed and re-rendered
\* without error) the call takes the cheap path - render_page only, sections
\* and indexes untouched - exactly when the page was in the page table with the
\* metadata the file now has; otherwise it re-derives the sections and the
\* indexes and runs the full build.
C4_CheapPathIffMetadataUnchanged ==
    [][PageReloaded =>
        LET unchanged == /\ Has(pages, last'.path)
                         /\ pages[last'.path].meta = FrontMatter(last'.file)
        IN /\ unchanged => /\ last'.steps = CheapSteps
                           /\ sections' = sections
                           /\ tags' = tags
                           /\ categories' = categories
           /\ ~unchanged => last'.steps = FullSteps]_vars

\* C4 witness: a body-only edit took the cheap path.
C4_Witness ==
    /\ last.op = "change" /\ last.path \in PagePaths
    /\ last.steps = CheapSteps /\ last.result = "Ok"
    /\ pages[last.path].raw_content.body = 2

\* C5: when the call for an existing _index.md returns Ok, the re-loaded
\* section's ordered, ignored and subsection lists are the from-scratch
\* derivation over the live tables.
C5_ReloadedSectionRelinked ==
    (last.op = "change" /\ IsSectionPath(last.path) /\ last.result = "Ok")
        => DerivedFromScratch({last.path})

\* The relative path the deletion branch reads for path before removing it.
DeletedKey(path) ==
    IF IsSectionPath(path) THEN sections[path].relative_path
    ELSE pages[path].relative_path

DeletedKnown == last'.op = "delete" /\ ops' = ops + 1 /\ Known(Self, last'.path)

\* C6: a deletion of a known page or section removes the permalink entry and
\* the record, then re-derives the sections, then the indexes, then runs the
\* full build - never render_page alone.
C6_DeletionRemovesThenRebuilds ==
    [][DeletedKnown =>
        /\ last'.steps = <<"permalinks.remove", "remove", "populate_sections",
                           "populate_tags_and_categories", "build">>
        /\ ~Has(permalinks', DeletedKey(last'.path))
        /\ ~Has(pages', last'.path) /\ ~Has(sections', last'.path)]_vars

\* C6 witness: a page was deleted while another one stays.
C6_Witness ==
    /\ last.op = "delete" /\ last.path \in PagePaths /\ last.result = "Ok"
    /\ DOMAIN pages # {}

\* Every live page and section has its permalink under its relative path.
PermalinksRoundTrip ==
    /\ \A p \in DOMAIN pages :
         /\ Has(permalinks, pages[p].relative_path)
         /\ permalinks[pages[p].relative_path] = pages[p].permalink
    /\ \A k \in DOMAIN sections :
         /\ Has(permalinks, sections[k].relative_path)
         /\ permalinks[sections[k].relative_path] = sections[k].permalink

\* C7: after load and any rebuild_after_content_change calls every live item
\* has permalinks[relative_path] = permalink, and the relative path of an
\* item just deleted is no key of the table.
C7_PermalinkRoundTrip ==
    /\ [](status = "loaded" => PermalinksRoundTrip)
    /\ [][DeletedKnown => ~Has(permalinks', DeletedKey(last'.path))]_vars

\* C7 witness: after a deletion and another call, live items remain.
C7_Witness ==
    /\ status = "loaded" /\ ops = 2 /\ last.op = "change" /\ last.result = "Ok"
    /\ DOMAIN pages = PagePaths /\ DOMAIN sections = SectionPaths
    /\ Cardinality(DOMAIN permalinks) >= 4

LiveKeys ==
    {pages[p].relative_path : p \in DOMAIN pages}
        \cup {sections[k].relative_path : k \in DOMAIN sections}

\* C8: after load and after every call that returned Ok, the keys of the
\* permalink table are exactly the relative paths of the live pages and
\* sections.
C8_PermalinkKeysAreLiveItems ==
    (status = "loaded" /\ last.result = "Ok") => DOMAIN permalinks = LiveKeys

\* The one key a call may touch: the relative path of the item of its path.
ChangedKey ==
    IF last'.op = "delete" /\ Known(Self, last'.path) THEN DeletedKey(last'.path)
    ELSE RelativePath(last'.path)

\* C9: a rebuild_after_content_change call leaves every permalink entry but
\* the changed item's as it was, whatever it returns.
C9_OneEntryPatched ==
    [][(status = "loaded" /\ ops' = ops + 1) =>
        \A k \in (DOMAIN permalinks \cup DOMAIN permalinks') \ {ChangedKey} :
            /\ Has(permalinks, k) /\ Has(permalinks', k)
            /\ permalinks'[k] = permalinks[k]]_vars

\* C9 witness: a call replaced content/_index.md while other entries exist.
C9_Witness ==
    /\ last.op = "change" /\ last.path = Root /\ last.result = "Ok"
    /\ Has(permalinks, "posts/c.md") /\ Has(permalinks, "posts/_index.md")

\* The bodies of the live items.
Bodies ==
    {pages[p].raw_content : p \in DOMAIN pages}
        \cup {sections[k].raw_content : k \in DOMAIN sections}

PatchedFirst(l) ==
    \A i \in DOMAIN l.steps :
        l.steps[i] = "render_markdown" =>
            \E j \in 1..(i - 1) : l.steps[j] \in {"permalinks", "permalinks.insert"}

\* C10: the permalink entries are written before any body is rendered, so a
\* load fails at rendering only when some body links to no discovered item,
\* and an incremental update fails at rendering only when the changed body
\* links to no live item (itself included).
C10_PermalinksBeforeRendering ==
    /\ PatchedFirst(last)
    /\ (last.op = "load" /\ last.result = "Err" /\ Made(last, "render_markdown"))
          => \E b \in Bodies : b.link # NoLink /\ b.link \notin LiveKeys
    /\ (last.op = "change" /\ last.result = "Err"
            /\ last.steps[Len(last.steps)] = "render_markdown")
          => last.file.link # NoLink /\ last.file.link \notin LiveKeys

\* C10 witness: a page that links to itself was (re)loaded and rendered.
C10_Witness ==
    /\ last.op = "change" /\ last.path = PageC /\ last.result = "Ok"
    /\ last.file.kind = "page" /\ last.file.link = RelativePath(PageC)
    /\ pages[PageC].content = <<"html", 2>>

\* C12: rebuild_after_content_change always returns, with Ok or with an
\* error value: no call ends by aborting the process, whatever the path.
C12_RebuildAlwaysReturns ==
    (last.op \in {"change", "delete"}) => last.result \in {"Ok", "Err"}

\* C14: once load has succeeded the section table holds the key of the
\* content root's _index.md, after every incremental call that returned Ok.
C14_RootSectionAlwaysKeyed ==
    (status = "loaded" /\ last.result = "Ok") => Has(sections, Root)

\* How many times section k lists the page path.
TimesListed(k, path) ==
    Cardinality({i \in DOMAIN AllPagesPath(sections[k]) : AllPagesPath(sections[k])[i] = path})

\* C15: after load and after every incremental call that returned Ok,
\* get_all_orphan_pages returns exactly the live pages whose parent index path
\* is no key of the section table, and every other live page is listed once
\* by the section at its parent index path and by no other section.
C15_OrphansHaveNoSection ==
    (status = "loaded" /\ last.result = "Ok") =>
        /\ GetAllOrphanPages(Self)
              = {p \in DOMAIN pages : ~Has(sections, JoinIndex(pages[p].parent_path))}
        /\ \A p \in DOMAIN pages \ GetAllOrphanPages(Self) :
              \A k \in DOMAIN sections :
                  TimesListed(k, p) = IF k = JoinIndex(pages[p].parent_path) THEN 1 ELSE 0

\* The ordered list of section k never lists a later date after an earlier
\* one.
MonotonicByDate(k) ==
    \A i \in 1..(Len(sections[k].pages) - 1) :
        sections[k].pages[i].meta.date >= sections[k].pages[i + 1].meta.date

\* C16: after a call that ran populate_sections and returned Ok, in every
\* section sorted by date the ordered list is monotonic in the date, and every
\* live child page without a date is in the ignored list and not in the
\* ordered one.
C16_SortedAndIgnored ==
    (status = "loaded" /\ last.result = "Ok" /\ Made(last, "populate_sections")) =>
        \A k \in DOMAIN sections :
            sections[k].meta.sort_by = "Date" =>
                /\ MonotonicByDate(k)
                /\ \A p \in DOMAIN pages :
                      (JoinIndex(pages[p].parent_path) = k /\ pages[p].meta.date = 0) =>
                          /\ p \in {sections[k].ignored_pages[i].file_path :
                                      i \in DOMAIN sections[k].ignored_pages}
                          /\ p \notin {sections[k].pages[i].file_path :
                                      i \in DOMAIN sections[k].pages}

\* The previous/next references of the list ps follow its order.
Chained(ps) ==
    \A i \in DOMAIN ps :
        /\ ps[i].previous = IF i = 1 THEN NoPath ELSE ps[i - 1].file_path
        /\ ps[i].next = IF i = Len(ps) THEN NoPath ELSE ps[i + 1].file_path

Subsections(k) == {sections[k].subsections[i] : i \in DOMAIN sections[k].subsections}

\* C20: after a load that returned Ok, section T is in the subsection list of
\* section S iff the parent of the directory of T's index file is the
\* directory of S's index file; so no section lists itself, and a section
\* without child sections lists none.
C20_SubsectionsAreDirectChildren ==
    (last.op = "load" /\ last.result = "Ok") =>
        \A S \in DOMAIN sections, T \in DOMAIN sections :
            (T \in Subsections(S)) <=> (DirParent(ParentPath(T)) = ParentPath(S))

\* The call just made ran build and returned its error.
BuildFailed ==
    /\ ops' = ops + 1
    /\ last'.result = "Err"
    /\ last'.op = "build" \/ (last'.op = "template" /\ Made(last', "build"))

\* The output directory is what the first n steps of build leave of an empty
\* one.
LeftByBuild(n) ==
    \E lo \in ListOrdersOf(Self) :
        public' = BuildWritten([Self EXCEPT !.public = EmptyOutput], lo, n)

ChangedFiles ==
    {f \in DOMAIN public \cup DOMAIN public' :
        \/ f \notin DOMAIN public
        \/ f \notin DOMAIN public'
        \/ public[f] # public'[f]}

SitemapFile == <<"", "", "sitemap.xml">>

RssFile == <<"", "", "rss.xml">>

\* A call of rebuild_after_template_change that went past the reload of the
\* templates ran exactly this one step, touched no file but this one and,
\* when it returned Ok, left the directory as this write leaves it (the
\* feed of a site without a dated page is no file).
OnlyRegenerated(step, file, written) ==
    /\ last'.steps \in {<<"full_reload">>, <<"full_reload", step>>}
    /\ last'.steps = <<"full_reload">> => last'.result = "Err"
    /\ ChangedFiles \subseteq {file}
    /\ last'.result = "Ok" => public' = written

\* C13: rebuild_after_template_change regenerates only the sitemap for
\* sitemap.xml, only the RSS feed for rss.xml, and runs the full build for
\* every other template; in all three cases the page table, the section
\* table, the permalink table and the tag and category indexes are left as
\* they were.
C13_TemplateChangeRendersWithoutDiscovery ==
    [][(last'.op = "template" /\ ops' = ops + 1) =>
        /\ UNCHANGED <<pages, sections, permalinks, tags, categories>>
        /\ CASE last'.path = "sitemap.xml" ->
                  OnlyRegenerated("render_sitemap", SitemapFile, WriteSitemap(public, Self))
             [] last'.path = "rss.xml" ->
                  OnlyRegenerated("render_rss_feed", RssFile, WriteRssFeed(public, Self))
             [] OTHER ->
                  /\ last'.steps \in {<<"full_reload">>, <<"full_reload", "build">>}
                  /\ last'.steps = <<"full_reload">> => last'.result = "Err"
                  /\ last'.result = "Ok" => LeftByBuild(Len(BuildSteps))]_vars

\* A change of sitemap.xml on a loaded site that was never built: the
\* sitemap is the one file of the output directory.
C13_Witness ==
    /\ last.op = "template"
    /\ last.path = "sitemap.xml"
    /\ last.result = "Ok"
    /\ DOMAIN public = {SitemapFile}
    /\ DOMAIN pages # {}


\* The names of the tags and categories of the content, in lexical order.
NamesInOrder == <<"news", "x", "y">>

NameRank(name) == CHOOSE i \in DOMAIN NamesInOrder : NamesInOrder[i] = name

\* The items of a list page, by descending count and, within a count, by
\* name.
ByCountThenName(items) ==
    \A i, j \in DOMAIN items :
        i < j => \/ items[i].count > items[j].count
                 \/ /\ items[i].count = items[j].count
                    /\ NameRank(items[i].name) < NameRank(items[j].name)

\* C18: the items passed to the tags and categories list pages are ordered
\* by descending page count, items of equal count by name, whatever the
\* iteration order of the table.
C18_ListByCountThenName ==
    \A name \in {"tags", "categories"} :
        <<name, "", "index.html">> \in DOMAIN public =>
            ByCountThenName(public[<<name, "", "index.html">>].items)


\* The last call was a build of the whole site, and it returned Ok.
BuiltWhole ==
    /\ last.result = "Ok"
    /\ last.op = "build" \/ (last.op = "template" /\ Made(last, "build"))

\* C19: after render_sections, a section that is paginated and has its
\* render flag set has an index.html at its own output path, also when its
\* ordered page list is empty.
C19_PaginatedSectionHasIndex ==
    BuiltWhole =>
        \A k \in DOMAIN sections :
            (sections[k].meta.render /\ sections[k].meta.paginate_by > 0)
                => <<sections[k].components, "", "index.html">> \in DOMAIN public


\* The listing output of pager i of a section.
PagerOutput(pagers, i) ==
    [tpl |-> "pager", index |-> i,
     pages |-> [j \in DOMAIN pagers[i] |-> pagers[i][j].file_path]]

\* The files that render_paginated is to write for a section with these
\* pagers: the section's index.html, and one index.html under the paginate
\* path for every pager.
PagerFiles(section, pagers) ==
    {<<section.components, "", "index.html">>}
        \cup {<<section.components, PagerPath(i), "index.html">> : i \in DOMAIN pagers}

\* The files of the output directory written by render_paginated in the
\* directory of a section.
PaginatedFiles(section) ==
    {f \in DOMAIN public :
        /\ f[1] = section.components
        /\ public[f].tpl \in {"pager", "alias"}}

PaginatedAsStated(section, pagers) ==
    /\ PaginatedFiles(section) = PagerFiles(section, pagers)
    /\ public[<<section.components, "", "index.html">>] = PagerOutput(pagers, 1)
    /\ public[<<section.components, PagerPath(1), "index.html">>]
         = [tpl |-> "alias", to |-> section.permalink]
    /\ \A i \in 2..Len(pagers) :
         public[<<section.components, PagerPath(i), "index.html">>] = PagerOutput(pagers, i)
    /\ \A i \in DOMAIN pagers :
         Cardinality({f \in PaginatedFiles(section) :
                        public[f].tpl = "pager" /\ public[f].index = i}) = 1

\* C21: after a build, a rendered paginated section with k >= 1 pagers has
\* pager 1 in its own index.html, an alias to its permalink at
\* <paginate_path>/1/index.html, pager i at <paginate_path>/i/index.html for
\* 2 <= i <= k, no other file of render_paginated, and one listing output
\* for every pager index.
C21_PagerFiles ==
    BuiltWhole =>
        \A k \in DOMAIN sections :
            (/\ sections[k].meta.render
             /\ sections[k].meta.paginate_by > 0
             /\ Pagers(sections[k].pages, sections[k].meta.paginate_by) # <<>>)
                => PaginatedAsStated(sections[k],
                                     Pagers(sections[k].pages, sections[k].meta.paginate_by))

\* A build of a site whose posts section has two pagers.
C21_Witness ==
    /\ BuiltWhole
    /\ Posts \in DOMAIN sections
    /\ sections[Posts].meta.paginate_by = 1
    /\ Len(sections[Posts].pages) = 2
    /\ <<"posts", "page/2", "index.html">> \in DOMAIN public


\* The last call was rebuild_after_content_change for a page whose metadata
\* had not changed: it took the cheap path and returned Ok.
CheapPathTaken ==
    /\ last.op = "change"
    /\ last.steps = CheapSteps
    /\ last.result = "Ok"

\* The records of the page at path in the ordered lists of the sections:
\* what render_sections renders for it in a build.
ChildRecords(path) ==
    {c \in UNION {{sections[k].pages[i] : i \in DOMAIN sections[k].pages} :
                    k \in DOMAIN sections} : c.file_path = path}

\* C22: after the cheap path for a page of a section, the record of the page
\* in the section's child list, from which a later build writes the page,
\* equals the record of the page table in content, permalink and metadata.
C22_ChildRecordIsCanonical ==
    CheapPathTaken =>
        \A c \in ChildRecords(last.path) :
            /\ c.content = pages[last.path].content
            /\ c.permalink = pages[last.path].permalink
            /\ c.meta = pages[last.path].meta


\* C23: the record that the cheap path passes to render_page (the clone of
\* the entry of the page table) has the previous and next page of the record
\* that a build renders for the page from its section's ordered list.
C23_CheapPathKeepsNeighbours ==
    CheapPathTaken =>
        \A c \in ChildRecords(last.path) :
            /\ pages[last.path].previous = c.previous
            /\ pages[last.path].next = c.next


\* The pages that render_sections renders: the ordered pages of the
\* sections.
RenderedAsChild == {p \in DOMAIN pages : ChildRecords(p) # {}}

\* The pages that render_orphan_pages renders.
RenderedAsOrphan == GetAllOrphanPages(Self)

\* C24: after a successful build every page of the page table was rendered
\* through one route, as a child of its section or as an orphan and not as
\* both, and has its output; a page of a section's ignored list too.
C24_EveryPageRenderedOnce ==
    BuiltWhole =>
        \A p \in DOMAIN pages :
            /\ p \in RenderedAsChild \/ p \in RenderedAsOrphan
            /\ ~(p \in RenderedAsChild /\ p \in RenderedAsOrphan)
            /\ <<pages[p].path, "", "index.html">> \in DOMAIN public

====
